---- MODULE Spec2Model ----
(***************************************************************************)
(* A model of script.py: one run of main, from argument validation through *)
(* PNG generation (create_png_set / make_icon_layer), the optional VTF     *)
(* conversion (convert_vtf) and the .vmt emission (generate_vmt_files).    *)
(* Strings the code builds by concatenation are sequences of pieces; the   *)
(* name given as --nameshort is a sequence of one-character strings.       *)
(***************************************************************************)
EXTENDS Integers, Sequences, FiniteSets, TLC

VARIABLES
    nameshort,   \* args.nameshort: a sequence of characters
    image,       \* the file named by --image: [state, w, h]
    noVtf,       \* args.no_vtf
    vtfExists,   \* VTF_CMD.exists()
    stdoutEnc,   \* sys.stdout.encoding, the encoding print writes with
    tpl,         \* template file name -> [state, w, h], in the script folder
    pc,          \* position of the run in main
    vi,          \* index into specs of the loop of create_png_set
    ci,          \* index of the loop of convert_vtf
    ki,          \* index of the next write call of generate_vmt_files
    dirCreated,  \* out_dir exists (out.mkdir)
    files,       \* file name -> content, the files of out_dir made by this run
    written,     \* the names the script has saved, in the order of the saves
    invoked,     \* the PNG names the converter process was started on, in order
    printed,     \* what was printed to stdout, in order
    opened,      \* the input files Image.open was called on
    crashIn,     \* the function an unhandled exception was raised in, or "none"
    exitCode,    \* the exit status of the process, -1 while it runs
    errmsg       \* the message of sys.exit, or "" if none

vars == <<nameshort, image, noVtf, vtfExists, stdoutEnc, tpl, pc, vi, ci, ki, dirCreated,
          files, written, invoked, printed, opened, crashIn, exitCode, errmsg>>

inputs == <<nameshort, image, noVtf, vtfExists, stdoutEnc, tpl>>

(***************************************************************************)
(* Bounds and input sets                                                   *)
(***************************************************************************)
MaxNameLen == 2

LowerChars == {"a"}
UpperChars == {"A"}
OtherChars == {"1"}
Chars == LowerChars \cup UpperChars \cup OtherChars

Names == UNION {[1..n -> Chars] : n \in 0..MaxNameLen}

\* sizes (width, height) of a readable source image
SrcSizes == {<<512, 512>>, <<300, 100>>, <<7, 40>>, <<10, 10>>, <<1, 1>>}

\* sizes (width, height) of a readable template
TplSizes == {<<4, 4>>, <<128, 64>>, <<300, 300>>}

BadFile(s) == [state |-> s, w |-> 0, h |-> 0]
GoodFile(d) == [state |-> "ok", w |-> d[1], h |-> d[2]]

Images == {BadFile("missing"), BadFile("corrupt")} \cup {GoodFile(d) : d \in SrcSizes}
Templates == {BadFile("absent"), BadFile("corrupt")} \cup {GoodFile(d) : d \in TplSizes}
ScoreTemplates == {BadFile("absent"), BadFile("corrupt"), GoodFile(<<128, 64>>)}

(***************************************************************************)
(* str.islower as CPython computes it: False at the first uppercase        *)
(* character, else whether some character is lowercase.                    *)
(***************************************************************************)
RECURSIVE islower_from(_, _, _)
islower_from(s, i, cased) ==
    IF i > Len(s) THEN cased
    ELSE IF s[i] \in UpperChars THEN FALSE
    ELSE islower_from(s, i + 1, cased \/ s[i] \in LowerChars)

islower_nouppercase(s) == \A i \in 1..Len(s) : s[i] \notin UpperChars

islower(s) == islower_from(s, 1, FALSE)

(***************************************************************************)
(* Image.thumbnail((t, t)) on a w x h image: the size the image has        *)
(* afterwards. The image is left alone when it fits the box; otherwise one *)
(* side becomes t and the other is the floor or the ceiling of the exact   *)
(* quotient, whichever keeps the aspect ratio closer (the floor on a tie), *)
(* and at least 1. Pillow compares the two candidates in floating point;   *)
(* the comparison is made here in exact arithmetic, which agrees with it   *)
(* on every size of SrcSizes for every box from 1 to 319; on an exact tie  *)
(* of other sizes the floating-point rounding may choose the ceiling.      *)
(***************************************************************************)
Abs(n) == IF n < 0 THEN -n ELSE n
Max(a, b) == IF a >= b THEN a ELSE b
CeilDiv(a, b) == IF a % b = 0 THEN a \div b ELSE (a \div b) + 1

\* round_aspect(y * aspect, key = |aspect - n / y|), with x = y = t
round_aspect_x(w, h, t) ==
    LET f == (t * w) \div h
        c == CeilDiv(t * w, h)
        pick == IF Abs(w * t - f * h) <= Abs(w * t - c * h) THEN f ELSE c
    IN  Max(pick, 1)

\* round_aspect(x / aspect, key = 0 if n == 0 else |aspect - x / n|)
round_aspect_y(w, h, t) ==
    LET f == (t * h) \div w
        c == CeilDiv(t * h, w)
        pick == IF f = 0 THEN 0
                ELSE IF Abs(w * f - t * h) * c <= Abs(w * c - t * h) * f THEN f
                ELSE c
    IN  Max(pick, 1)

thumbnail(w, h, t) ==
    IF t >= w /\ t >= h THEN <<w, h>>
    ELSE IF h >= w THEN <<round_aspect_x(w, h, t), t>>
    ELSE <<t, round_aspect_y(w, h, t)>>

(***************************************************************************)
(* make_icon_layer on a readable source image: the layer it returns,       *)
(* described by its size, the size and position of the resized icon and    *)
(* the position of the shadow.                                             *)
(***************************************************************************)
thumb_target_single_margin(canvas_size, margin) == Max(canvas_size - margin, 1)

thumb_target(canvas_size, margin) == Max(canvas_size - 2 * margin, 1)

make_icon_layer(src, canvas_size, blur, offset, margin) ==
    LET thumb == thumb_target(canvas_size, margin)
        icon == thumbnail(src.w, src.h, thumb)
    IN  [ size    |-> canvas_size,
          margin  |-> margin,
          srcW    |-> src.w,
          srcH    |-> src.h,
          iconW   |-> icon[1],
          iconH   |-> icon[2],
          iconX   |-> (canvas_size - icon[1]) \div 2,
          iconY   |-> (canvas_size - icon[2]) \div 2,
          shadow  |-> blur > 0,
          blur    |-> blur,
          shadowX |-> IF blur > 0 THEN (canvas_size - icon[1]) \div 2 + offset ELSE 0,
          shadowY |-> IF blur > 0 THEN (canvas_size - icon[2]) \div 2 + offset ELSE 0 ]

(***************************************************************************)
(* The variant table of create_png_set and the names of the files.         *)
(***************************************************************************)
specs_sprite_first ==
    << [variant |-> "sprite", dsize |-> 256, blur |-> 3, offset |-> 2, margin |-> 3,
        tplname |-> "sprite_template.png"],
       [variant |-> "score",  dsize |-> 64,  blur |-> 0, offset |-> 0, margin |-> 0,
        tplname |-> "score_template.png"],
       [variant |-> "icon",   dsize |-> 256, blur |-> 5, offset |-> 4, margin |-> 10,
        tplname |-> "icon_template.png"] >>

specs ==
    << [variant |-> "score",  dsize |-> 64,  blur |-> 0, offset |-> 0, margin |-> 0,
        tplname |-> "score_template.png"],
       [variant |-> "sprite", dsize |-> 256, blur |-> 3, offset |-> 2, margin |-> 3,
        tplname |-> "sprite_template.png"],
       [variant |-> "icon",   dsize |-> 256, blur |-> 5, offset |-> 4, margin |-> 10,
        tplname |-> "icon_template.png"] >>

TplNames == {specs[i].tplname : i \in 1..Len(specs)}

\* f"{variant}_{ns}.png"
png_name(variant, ns) == <<variant \o "_">> \o ns \o <<".png">>

IsPng(f) == f[Len(f)] = ".png"
IsVmt(f) == f[Len(f)] = ".vmt"
IsVtf(f) == f[Len(f)] = ".vtf"

PngFile(w, h, base, layer) ==
    [kind |-> "png", w |-> w, h |-> h, base |-> base, layer |-> layer]

NoFiles == [f \in {} |-> 0]

\* canvas.save(path) / path.write_text(...): the file is created or replaced
save(fs, name, content) == [f \in DOMAIN fs \cup {name} |-> IF f = name THEN content ELSE fs[f]]

(***************************************************************************)
(* The canvas of one variant: whether the loop of create_png_set opens the *)
(* variant's template, and the canvas and working size it goes on with     *)
(* (the template when it was read, else a blank square of the default      *)
(* size; the working size is the canvas's width).                          *)
(***************************************************************************)
reads_template_uniform(sp, t) == t.state # "absent"

reads_template(sp, t) == sp.variant # "score" /\ t.state # "absent"

canvas_of_square(sp, t) ==
    IF reads_template(sp, t)
    THEN [w |-> t.w, h |-> t.w, size |-> t.w, base |-> "template"]
    ELSE [w |-> sp.dsize, h |-> sp.dsize, size |-> sp.dsize, base |-> "blank"]

canvas_of(sp, t) ==
    IF reads_template(sp, t)
    THEN [w |-> t.w, h |-> t.h, size |-> t.w, base |-> "template"]
    ELSE [w |-> sp.dsize, h |-> sp.dsize, size |-> sp.dsize, base |-> "blank"]

(***************************************************************************)
(* generate_vmt_files: the lines of one .vmt file and the three write      *)
(* calls, in the order of the code.                                        *)
(***************************************************************************)
base_path(ns) == <<"vgui/ttt/roles/">> \o ns

basetexture_line(ns, basetex) ==
    <<"\t\"$basetexture\" \"">> \o base_path(ns) \o <<"/">> \o basetex \o <<"\"">>

vmt_lines_always_ignorez(ns, basetex, ignorez) ==
    << <<"\"UnlitGeneric\"">>,
       <<"{">>,
       basetexture_line(ns, basetex),
       <<"\t$nocull 1">>,
       <<"\t$ignorez 1">>,
       <<"\t$nodecal 1">>,
       <<"\t$nolod 1">>,
       <<"\t$vertexcolor 1">>,
       <<"\t$vertexalpha 1">>,
       <<"\t$translucent 1">>,
       <<"}">> >>

vmt_lines(ns, basetex, ignorez) ==
    << <<"\"UnlitGeneric\"">>,
       <<"{">>,
       basetexture_line(ns, basetex),
       <<"\t$nocull 1">> >>
    \o (IF ignorez THEN << <<"\t$ignorez 1">> >> ELSE << >>)
    \o << <<"\t$nodecal 1">>,
          <<"\t$nolod 1">>,
          <<"\t$vertexcolor 1">>,
          <<"\t$vertexalpha 1">>,
          <<"\t$translucent 1">>,
          <<"}">> >>

vmt_writes(ns) ==
    << [path |-> <<"sprite_">> \o ns \o <<".vmt">>,
        basetex |-> <<"sprite_">> \o ns, ignorez |-> FALSE],
       [path |-> <<"sprite_">> \o ns \o <<"_noz", ".vmt">>,
        basetex |-> <<"sprite_">> \o ns, ignorez |-> TRUE],
       [path |-> <<"icon_">> \o ns \o <<".vmt">>,
        basetex |-> <<"icon_">> \o ns, ignorez |-> FALSE] >>

VmtFile(lines) == [kind |-> "vmt", lines |-> lines]

(***************************************************************************)
(* convert_vtf: the names it converts, in order, and what it prints. The   *)
(* messages hold characters outside ASCII, written here by their code      *)
(* points; print encodes the whole message with the encoding of stdout     *)
(* (error handler "strict") and raises UnicodeEncodeError, writing         *)
(* nothing, when a character has no encoding.                              *)
(***************************************************************************)
convert_names(ns) == << <<"sprite_">> \o ns, <<"icon_">> \o ns >>

ConvOutcomes == {"ok", "nonzero", "oserror"}

NonAscii == {"U+2013", "U+26A0", "U+FE0F", "U+2192", "U+2026"}

Encodings == {"utf-8", "cp1252", "cp932", "ascii"}

\* the characters of NonAscii each codec can encode
Encodable(enc) ==
    CASE enc = "utf-8"  -> NonAscii
      [] enc = "cp1252" -> {"U+2013", "U+2026"}
      [] enc = "cp932"  -> {"U+2192", "U+2026"}
      [] enc = "ascii"  -> {}

SkipNotice == <<"U+2013", " Skipping VTF conversion.">>
MissingNotice == <<"U+26A0", "U+FE0F", "  VTFCmd.exe not found at ", "repr(VTF_CMD)", "; skipping.">>
ConvertingNotice(png) == <<"U+2192", " Converting ">> \o png \o <<" ", "U+2026">>
FailedNotice(png) == <<"U+26A0", "U+FE0F", "  VTFCmd failed on ">> \o png \o <<": exit ", "returncode">>

\* whether print(msg) succeeds on this run's stdout
can_print(msg) ==
    \A i \in 1..Len(msg) : msg[i] \in NonAscii => msg[i] \in Encodable(stdoutEnc)

LowercaseError == "Error: nameshort must be lowercase"

(***************************************************************************)
(* The run                                                                 *)
(***************************************************************************)
Init ==
    /\ nameshort \in Names
    /\ image \in Images
    /\ noVtf \in BOOLEAN
    /\ vtfExists \in BOOLEAN
    /\ stdoutEnc \in Encodings
    /\ tpl \in [TplNames -> Templates]
    /\ tpl["score_template.png"] \in ScoreTemplates
    /\ pc = "start"
    /\ vi = 1
    /\ ci = 1
    /\ ki = 1
    /\ dirCreated = FALSE
    /\ files = NoFiles
    /\ written = << >>
    /\ invoked = << >>
    /\ printed = << >>
    /\ opened = {}
    /\ crashIn = "none"
    /\ exitCode = -1
    /\ errmsg = ""

\* an exception nobody catches: the interpreter prints a traceback and exits 1
Raise(where) ==
    /\ pc' = "crashed"
    /\ crashIn' = where
    /\ exitCode' = 1

\* main, up to the call of create_png_set: sys.exit("...") unless nameshort.islower()
main ==
    /\ pc = "start"
    /\ IF ~islower(nameshort)
       THEN /\ pc' = "exited"
            /\ exitCode' = 1
            /\ errmsg' = LowercaseError
       ELSE /\ pc' = "mkdir"
            /\ UNCHANGED <<exitCode, errmsg>>
    /\ UNCHANGED <<inputs, vi, ci, ki, dirCreated, files, written, invoked, printed,
                   opened, crashIn>>

\* out.mkdir(parents=True, exist_ok=True)
create_png_set_mkdir ==
    /\ pc = "mkdir"
    /\ dirCreated' = TRUE
    /\ pc' = "tab"
    /\ UNCHANGED <<inputs, vi, ci, ki, files, written, invoked, printed, opened,
                   crashIn, exitCode, errmsg>>

\* the tab file created before the source image is loaded
create_png_set_tab_save_first ==
    /\ pc = "tab"
    /\ opened' = opened \cup {"image"}
    /\ LET layer == make_icon_layer(image, 16, 0, 0, 0)
           name == png_name("tab", nameshort)
       IN  /\ files' = save(files, name, PngFile(layer.size, layer.size, "layer", layer))
           /\ written' = Append(written, name)
    /\ IF image.state # "ok"
       THEN /\ Raise("make_icon_layer")
            /\ UNCHANGED vi
       ELSE /\ pc' = "variant"
            /\ vi' = 1
            /\ UNCHANGED <<crashIn, exitCode>>
    /\ UNCHANGED <<inputs, ci, ki, dirCreated, invoked, printed, errmsg>>

\* tab = make_icon_layer(src, 16, 0, 0, 0); tab.save(out / f"tab_{ns}.png")
create_png_set_tab ==
    /\ pc = "tab"
    /\ opened' = opened \cup {"image"}
    /\ IF image.state # "ok"
       THEN /\ Raise("make_icon_layer")
            /\ UNCHANGED <<files, written, vi>>
       ELSE /\ LET layer == make_icon_layer(image, 16, 0, 0, 0)
                   name == png_name("tab", nameshort)
               IN  /\ files' = save(files, name, PngFile(layer.size, layer.size, "layer", layer))
                   /\ written' = Append(written, name)
            /\ pc' = "variant"
            /\ vi' = 1
            /\ UNCHANGED <<crashIn, exitCode>>
    /\ UNCHANGED <<inputs, ci, ki, dirCreated, invoked, printed, errmsg>>

\* one iteration of the loop over specs
create_png_set_variant ==
    /\ pc = "variant"
    /\ LET sp == specs[vi]
           t == tpl[sp.tplname]
           useTpl == reads_template(sp, t)
       IN  IF useTpl /\ t.state # "ok"
           THEN \* Image.open(tpl_path) raises
                /\ opened' = opened \cup {sp.tplname}
                /\ Raise("create_png_set")
                /\ UNCHANGED <<files, written, vi>>
           ELSE LET canvas == canvas_of(sp, t)
                    size == canvas.size
                    layer == make_icon_layer(image, size, sp.blur, sp.offset, sp.margin)
                    name == png_name(sp.variant, nameshort)
                IN  /\ opened' = opened \cup (IF useTpl THEN {sp.tplname} ELSE {}) \cup {"image"}
                    /\ files' = save(files, name, PngFile(canvas.w, canvas.h, canvas.base, layer))
                    /\ written' = Append(written, name)
                    /\ IF vi < Len(specs)
                       THEN vi' = vi + 1 /\ pc' = "variant"
                       ELSE vi' = vi /\ pc' = "convert"
                    /\ UNCHANGED <<crashIn, exitCode>>
    /\ UNCHANGED <<inputs, ci, ki, dirCreated, invoked, printed, errmsg>>

\* convert_vtf before its loop: the skip flag, then VTF_CMD.exists(); each
\* branch prints its notice and returns, unless the print raises
convert_vtf_check ==
    /\ pc = "convert"
    /\ IF noVtf \/ ~vtfExists
       THEN LET msg == IF noVtf THEN SkipNotice ELSE MissingNotice
            IN  IF can_print(msg)
                THEN /\ printed' = Append(printed, msg)
                     /\ pc' = "vmt"
                     /\ UNCHANGED <<crashIn, exitCode>>
                ELSE /\ Raise("convert_vtf")
                     /\ UNCHANGED printed
       ELSE /\ pc' = "convert_loop"
            /\ UNCHANGED <<printed, crashIn, exitCode>>
    /\ ci' = 1
    /\ UNCHANGED <<inputs, vi, ki, dirCreated, files, written, invoked, opened, errmsg>>

\* one iteration of the loop of convert_vtf: print, then
\* subprocess.run(..., check=True); only CalledProcessError is caught, and
\* its handler prints
convert_vtf_run ==
    /\ pc = "convert_loop"
    /\ LET name == convert_names(nameshort)[ci]
           png == name \o <<".png">>
           next == IF ci < Len(convert_names(nameshort)) THEN "convert_loop" ELSE "vmt"
       IN  IF ~can_print(ConvertingNotice(png))
           THEN \* UnicodeEncodeError before the converter is started
                /\ Raise("convert_vtf")
                /\ UNCHANGED <<printed, invoked, files, ci>>
           ELSE \E outcome \in ConvOutcomes :
                  IF outcome = "oserror"
                  THEN \* the process cannot be started
                       /\ printed' = Append(printed, ConvertingNotice(png))
                       /\ Raise("convert_vtf")
                       /\ UNCHANGED <<invoked, files, ci>>
                  ELSE IF outcome = "nonzero" /\ ~can_print(FailedNotice(png))
                  THEN \* UnicodeEncodeError in the except clause
                       /\ printed' = Append(printed, ConvertingNotice(png))
                       /\ invoked' = Append(invoked, png)
                       /\ Raise("convert_vtf")
                       /\ UNCHANGED <<files, ci>>
                  ELSE /\ invoked' = Append(invoked, png)
                       /\ files' = IF outcome = "ok"
                                   THEN save(files, name \o <<".vtf">>, [kind |-> "vtf"])
                                   ELSE files
                       /\ printed' = IF outcome = "ok"
                                     THEN Append(printed, ConvertingNotice(png))
                                     ELSE printed \o <<ConvertingNotice(png), FailedNotice(png)>>
                       /\ pc' = next
                       /\ ci' = IF next = "vmt" THEN ci ELSE ci + 1
                       /\ UNCHANGED <<crashIn, exitCode>>
    /\ UNCHANGED <<inputs, vi, ki, dirCreated, written, opened, errmsg>>

\* one write(...) call of generate_vmt_files; after the last, main returns
generate_vmt_files_write ==
    /\ pc = "vmt"
    /\ LET wr == vmt_writes(nameshort)[ki]
       IN  /\ files' = save(files, wr.path, VmtFile(vmt_lines(nameshort, wr.basetex, wr.ignorez)))
           /\ written' = Append(written, wr.path)
    /\ IF ki < Len(vmt_writes(nameshort))
       THEN ki' = ki + 1 /\ pc' = "vmt" /\ exitCode' = exitCode
       ELSE ki' = ki /\ pc' = "done" /\ exitCode' = 0
    /\ UNCHANGED <<inputs, vi, ci, dirCreated, invoked, printed, opened, crashIn, errmsg>>

Next ==
    \/ main
    \/ create_png_set_mkdir
    \/ create_png_set_tab
    \/ create_png_set_variant
    \/ convert_vtf_check
    \/ convert_vtf_run
    \/ generate_vmt_files_write

Spec == Init /\ [][Next]_vars

Terminal == pc \in {"exited", "crashed", "done"}

(***************************************************************************)
(* What the properties speak of                                            *)
(***************************************************************************)
\* the name has a lowercase letter and no uppercase letter
AllLowercase ==
    /\ \E i \in 1..Len(nameshort) : nameshort[i] \in LowerChars
    /\ \A i \in 1..Len(nameshort) : nameshort[i] \notin UpperChars

TabPng == <<"tab_">> \o nameshort \o <<".png">>
ScorePng == <<"score_">> \o nameshort \o <<".png">>
SpritePng == <<"sprite_">> \o nameshort \o <<".png">>
IconPng == <<"icon_">> \o nameshort \o <<".png">>
SpriteVmt == <<"sprite_">> \o nameshort \o <<".vmt">>
SpriteNozVmt == <<"sprite_">> \o nameshort \o <<"_noz", ".vmt">>
IconVmt == <<"icon_">> \o nameshort \o <<".vmt">>

WriteOrder == <<TabPng, ScorePng, SpritePng, IconPng, SpriteVmt, SpriteNozVmt, IconVmt>>

Pngs == {f \in DOMAIN files : IsPng(f)}
Vmts == {f \in DOMAIN files : IsVmt(f)}
Vtfs == {f \in DOMAIN files : IsVtf(f)}
Generated == Pngs \cup Vmts

Range(q) == {q[i] : i \in 1..Len(q)}
IsPrefix(p, q) == Len(p) <= Len(q) /\ \A i \in 1..Len(p) : p[i] = q[i]

PngGenerationOrLater ==
    pc \in {"mkdir", "tab", "variant", "convert", "convert_loop", "vmt", "done", "crashed"}

\* create_png_set has returned and main has called convert_vtf
ConvertVtfCalled ==
    pc \in {"convert_loop", "vmt", "done"} \/ crashIn = "convert_vtf"

(***************************************************************************)
(* C1: a nameshort that str.islower rejects (an uppercase letter, or no    *)
(* lowercase letter at all) ends the run with a non-zero exit status and   *)
(* the error message before the output directory is created, a file is     *)
(* opened or written or the converter is started; any other nameshort      *)
(* takes the run on to PNG generation.                                     *)
(***************************************************************************)
C1_LowercaseValidation ==
    pc # "start" =>
        IF AllLowercase
        THEN PngGenerationOrLater /\ errmsg = ""
        ELSE /\ pc = "exited"
             /\ exitCode # 0
             /\ errmsg = LowercaseError
             /\ ~dirCreated
             /\ DOMAIN files = {}
             /\ written = << >>
             /\ opened = {}
             /\ invoked = << >>

C1_Witness ==
    /\ pc = "exited"
    /\ nameshort = <<"A", "a">>
    /\ exitCode = 1

(***************************************************************************)
(* C2: convert_vtf never raises to its caller: once main has called it,    *)
(* no exception leaves it and a run that has ended has ended in            *)
(* generate_vmt_files' return. (An OSError of subprocess.run and a         *)
(* UnicodeEncodeError of print do leave it.)                               *)
(***************************************************************************)
C2_ConvertNeverRaises ==
    /\ crashIn # "convert_vtf"
    /\ (Terminal /\ ConvertVtfCalled) => pc = "done"

(***************************************************************************)
(* C3, as claimed: in every terminal state the run has left either all     *)
(* four PNGs and all three descriptor files or none of them.               *)
(***************************************************************************)
C3_AllOrNothing ==
    Terminal => (Generated = {} \/ Generated = Range(WriteOrder))

(***************************************************************************)
(* C3, amended: generation is not transactional. In every terminal state   *)
(* the PNG and descriptor files the run has left are a prefix of the fixed *)
(* order tab, score, sprite, icon, sprite .vmt, sprite _noz .vmt,          *)
(* icon .vmt: all seven on normal completion, none when the name is        *)
(* rejected or the source image cannot be loaded, tab and score (and       *)
(* sprite) when a template cannot be loaded, the four PNGs and no          *)
(* descriptor when an exception leaves convert_vtf.                        *)
(***************************************************************************)
C3_WritePrefix ==
    Terminal =>
        /\ IsPrefix(written, WriteOrder)
        /\ Generated = Range(written)
        /\ pc = "done" => written = WriteOrder
        /\ pc = "exited" => written = << >>
        /\ crashIn = "make_icon_layer" => written = << >>
        /\ crashIn = "create_png_set" =>
               \/ written = <<TabPng, ScorePng>>
               \/ written = <<TabPng, ScorePng, SpritePng>>
        /\ crashIn = "convert_vtf" => written = <<TabPng, ScorePng, SpritePng, IconPng>>

C3_Witness ==
    /\ pc = "crashed"
    /\ crashIn = "create_png_set"
    /\ Generated = {TabPng, ScorePng, SpritePng}

(***************************************************************************)
(* C4, as claimed: every PNG written is square, and each of the score,     *)
(* sprite and icon PNGs has the size of its variant's template file when   *)
(* that file exists, else the default size 64, 256, 256.                   *)
(***************************************************************************)
C4_SquareTemplateDims ==
    /\ \A f \in Pngs : files[f].w = files[f].h
    /\ \A i \in 1..Len(specs) :
         LET f == png_name(specs[i].variant, nameshort)
             t == tpl[specs[i].tplname]
         IN  f \in DOMAIN files =>
                 IF t.state = "ok"
                 THEN files[f].w = t.w /\ files[f].h = t.h
                 ELSE files[f].w = specs[i].dsize /\ files[f].h = specs[i].dsize

(***************************************************************************)
(* C4, amended: the tab PNG is 16x16 and the score PNG 64x64 whatever      *)
(* templates exist; the sprite and the icon PNG have the width and height  *)
(* of their template file when it exists and 256x256 otherwise, so they    *)
(* are square exactly when there is no template or the template is square. *)
(***************************************************************************)
DimsOf(f) == <<files[f].w, files[f].h>>

C4_Dims ==
    /\ TabPng \in DOMAIN files => DimsOf(TabPng) = <<16, 16>>
    /\ ScorePng \in DOMAIN files => DimsOf(ScorePng) = <<64, 64>>
    /\ \A v \in {"sprite", "icon"} :
         LET f == <<v \o "_">> \o nameshort \o <<".png">>
             t == tpl[v \o "_template.png"]
         IN  f \in DOMAIN files =>
                 /\ t.state = "ok" => DimsOf(f) = <<t.w, t.h>>
                 /\ t.state = "absent" => DimsOf(f) = <<256, 256>>
                 /\ t.state \in {"ok", "absent"}
                 /\ (files[f].w = files[f].h) <=> (t.state = "absent" \/ t.w = t.h)

C4_Witness ==
    /\ SpritePng \in DOMAIN files
    /\ tpl["sprite_template.png"] = GoodFile(<<128, 64>>)
    /\ DimsOf(SpritePng) = <<128, 64>>
    /\ tpl["score_template.png"].state = "ok"
    /\ DimsOf(ScorePng) = <<64, 64>>

(***************************************************************************)
(* C5, as claimed: the resized icon of every layer is at most              *)
(* canvas_size - 2*margin wide and high, and at most as wide and high as   *)
(* the source image.                                                       *)
(***************************************************************************)
C5_ThumbWithinMargin ==
    \A f \in Pngs :
        LET l == files[f].layer
        IN  /\ l.iconW <= l.size - 2 * l.margin
            /\ l.iconH <= l.size - 2 * l.margin
            /\ l.iconW <= image.w
            /\ l.iconH <= image.h

(***************************************************************************)
(* C5, amended: the resized icon of every layer is at most                 *)
(* max(canvas_size - 2*margin, 1) wide and high (one pixel when the margin *)
(* leaves no room), and at most as wide and high as the source image.      *)
(***************************************************************************)
C5_ThumbWithinClampedMargin ==
    \A f \in Pngs :
        LET l == files[f].layer
            room == l.size - 2 * l.margin
            box == IF room >= 1 THEN room ELSE 1
        IN  /\ l.iconW >= 1 /\ l.iconW <= box
            /\ l.iconH >= 1 /\ l.iconH <= box
            /\ l.iconW <= image.w
            /\ l.iconH <= image.h

C5_Witness ==
    /\ IconPng \in DOMAIN files
    /\ image = GoodFile(<<300, 100>>)
    /\ files[SpritePng].layer.size = 4
    /\ files[SpritePng].layer.margin = 3
    /\ files[SpritePng].layer.iconW = 1
    /\ files[IconPng].layer.size = 256
    /\ files[IconPng].layer.iconW = 236
    /\ files[IconPng].layer.iconH = 79

(***************************************************************************)
(* C6: when conversion is not skipped and the converter executable exists, *)
(* a run in which convert_vtf was called ends with the converter started   *)
(* once on the sprite PNG and then once on the icon PNG, and with all four *)
(* PNGs and all three descriptor files present.                            *)
(***************************************************************************)
C6_ConvertsSpriteThenIcon ==
    (Terminal /\ ConvertVtfCalled /\ ~noVtf /\ vtfExists) =>
        /\ invoked = <<SpritePng, IconPng>>
        /\ pc = "done"
        /\ Generated = Range(WriteOrder)

(***************************************************************************)
(* C7: with a source image that is missing or unreadable no file is ever   *)
(* generated (no PNG, no descriptor, no converter output) and the          *)
(* converter is never started; a run that got past the name check ends in  *)
(* the unhandled exception of make_icon_layer.                             *)
(***************************************************************************)
C7_ImageLoadFailure ==
    image.state # "ok" =>
        /\ DOMAIN files = {}
        /\ written = << >>
        /\ invoked = << >>
        /\ pc \notin {"variant", "convert", "convert_loop", "vmt", "done"}
        /\ (Terminal /\ AllLowercase) =>
               pc = "crashed" /\ crashIn = "make_icon_layer" /\ exitCode # 0

C7_Witness ==
    /\ image.state = "missing"
    /\ pc = "crashed"
    /\ crashIn = "make_icon_layer"
    /\ dirCreated
    /\ opened = {"image"}

(***************************************************************************)
(* C8: when generate_vmt_files has returned there are exactly three .vmt   *)
(* files, sprite_<ns>.vmt, sprite_<ns>_noz.vmt and icon_<ns>.vmt; the two  *)
(* sprite files carry the basetexture path vgui/ttt/roles/<ns>/sprite_<ns>,*)
(* the icon file vgui/ttt/roles/<ns>/icon_<ns>; the $ignorez line is in    *)
(* the _noz file and in no other; the remaining lines are the same, in the *)
(* same order, in all three.                                               *)
(***************************************************************************)
IgnorezLine == <<"\t$ignorez 1">>
BasetextureOf(kindPrefix) ==
    <<"\t\"$basetexture\" \"", "vgui/ttt/roles/">> \o nameshort
        \o <<"/", kindPrefix>> \o nameshort \o <<"\"">>
IsBasetextureLine(l) == l[1] = "\t\"$basetexture\" \""
BasetextureLines(f) == SelectSeq(files[f].lines, IsBasetextureLine)
HasIgnorez(f) == \E i \in 1..Len(files[f].lines) : files[f].lines[i] = IgnorezLine
IsOtherLine(l) == l # IgnorezLine /\ ~IsBasetextureLine(l)
OtherLines(f) == SelectSeq(files[f].lines, IsOtherLine)

C8_VmtFiles ==
    pc = "done" =>
        /\ Vmts = {SpriteVmt, SpriteNozVmt, IconVmt}
        /\ Cardinality(Vmts) = 3
        /\ SubSeq(written, 5, Len(written)) = <<SpriteVmt, SpriteNozVmt, IconVmt>>
        /\ BasetextureLines(SpriteVmt) = <<BasetextureOf("sprite_")>>
        /\ BasetextureLines(SpriteNozVmt) = <<BasetextureOf("sprite_")>>
        /\ BasetextureLines(IconVmt) = <<BasetextureOf("icon_")>>
        /\ HasIgnorez(SpriteNozVmt)
        /\ ~HasIgnorez(SpriteVmt)
        /\ ~HasIgnorez(IconVmt)
        /\ OtherLines(SpriteVmt) = OtherLines(SpriteNozVmt)
        /\ OtherLines(SpriteVmt) = OtherLines(IconVmt)
        /\ Len(OtherLines(SpriteVmt)) = 9
        /\ Len(files[SpriteNozVmt].lines) = 11
        /\ Len(files[SpriteVmt].lines) = 10
        /\ Len(files[IconVmt].lines) = 10

C8_Witness ==
    /\ pc = "done"
    /\ nameshort = <<"a", "1">>
    /\ files[SpriteNozVmt].lines[5] = IgnorezLine
    /\ files[IconVmt].lines[3] =
           <<"\t\"$basetexture\" \"", "vgui/ttt/roles/", "a", "1", "/", "icon_", "a", "1", "\"">>

(***************************************************************************)
(* C9: score_template.png is never opened, and the score PNG is a blank    *)
(* 64x64 canvas with the icon layer centred on it, the layer made with     *)
(* margin 0 and no shadow, whether or not score_template.png exists.       *)
(***************************************************************************)
C9_ScoreIgnoresTemplate ==
    /\ "score_template.png" \notin opened
    /\ ScorePng \in DOMAIN files =>
         LET f == files[ScorePng]
         IN  /\ f.w = 64 /\ f.h = 64
             /\ f.base = "blank"
             /\ f.layer.size = 64
             /\ f.layer.margin = 0
             /\ ~f.layer.shadow
             /\ f.layer.iconW <= 64 /\ f.layer.iconH <= 64
             /\ 2 * f.layer.iconX + f.layer.iconW \in {63, 64}
             /\ 2 * f.layer.iconY + f.layer.iconH \in {63, 64}

C9_Witness ==
    /\ ScorePng \in DOMAIN files
    /\ tpl["score_template.png"] = GoodFile(<<128, 64>>)
    /\ files[ScorePng].w = 64

(***************************************************************************)
(* C10: with a readable source image, an accepted nameshort, --no-vtf and  *)
(* no template file present, the run ends normally with exactly four PNGs  *)
(* (tab 16x16, score 64x64, sprite 256x256, icon 256x256), exactly three   *)
(* .vmt files, no texture file, the skip notice printed and the converter  *)
(* never started, whether or not the converter executable exists.          *)
(***************************************************************************)
C10_NoVtfRun ==
    ( /\ Terminal
      /\ image.state = "ok"
      /\ AllLowercase
      /\ noVtf
      /\ \A n \in DOMAIN tpl : tpl[n].state = "absent" ) =>
        /\ pc = "done"
        /\ exitCode = 0
        /\ Pngs = {TabPng, ScorePng, SpritePng, IconPng}
        /\ Cardinality(Pngs) = 4
        /\ DimsOf(TabPng) = <<16, 16>>
        /\ DimsOf(ScorePng) = <<64, 64>>
        /\ DimsOf(SpritePng) = <<256, 256>>
        /\ DimsOf(IconPng) = <<256, 256>>
        /\ Vmts = {SpriteVmt, SpriteNozVmt, IconVmt}
        /\ Cardinality(Vmts) = 3
        /\ Vtfs = {}
        /\ DOMAIN files = Pngs \cup Vmts
        /\ printed = <<SkipNotice>>
        /\ invoked = << >>

====
